---- MODULE Spec2Model ----
(***************************************************************************)
(* The request-dispatch surface of the example MCP server                  *)
(* (examples/nodejs/vulnerable-mcp-server/src/index.ts): six request       *)
(* handlers registered at module load, the transport connected by main(),  *)
(* and the three dispatching handlers (tool call, resource read, prompt    *)
(* fetch) together with the tool, resource and prompt functions they call. *)
(*                                                                         *)
(* Strings that the code inspects character by character (operation names  *)
(* and resource URIs) are sequences of one-character strings.  Values the  *)
(* code only passes along are TLA+ strings.                                *)
(***************************************************************************)
EXTENDS Integers, Sequences, FiniteSets, TLC

(***************************************************************************)
(* Bounds                                                                  *)
(***************************************************************************)
\* Longest run of identical consecutive requests that is followed.
MaxRepeat == 2

(***************************************************************************)
(* Operation names and URIs, as the string literals of index.ts            *)
(***************************************************************************)
execute_command == <<"e","x","e","c","u","t","e","_","c","o","m","m","a","n","d">>
file_operations == <<"f","i","l","e","_","o","p","e","r","a","t","i","o","n","s">>
git_operations == <<"g","i","t","_","o","p","e","r","a","t","i","o","n","s">>
dependency_manager == <<"d","e","p","e","n","d","e","n","c","y","_","m","a","n","a","g","e","r">>
code_analysis == <<"c","o","d","e","_","a","n","a","l","y","s","i","s">>
ai_code_assistant == <<"a","i","_","c","o","d","e","_","a","s","s","i","s","t","a","n","t">>
environment_manager == <<"e","n","v","i","r","o","n","m","e","n","t","_","m","a","n","a","g","e","r">>
database_tools == <<"d","a","t","a","b","a","s","e","_","t","o","o","l","s">>
code_review == <<"c","o","d","e","_","r","e","v","i","e","w">>
debug_assistant == <<"d","e","b","u","g","_","a","s","s","i","s","t","a","n","t">>
deployment_guide == <<"d","e","p","l","o","y","m","e","n","t","_","g","u","i","d","e">>
FilesPrefix == <<"p","r","o","j","e","c","t",":","/","/","f","i","l","e","s","/">>
GitStatusUri == <<"p","r","o","j","e","c","t",":","/","/","g","i","t","/","s","t","a","t","u","s">>
ConfigUri == <<"p","r","o","j","e","c","t",":","/","/","c","o","n","f","i","g">>
LogsUri == <<"p","r","o","j","e","c","t",":","/","/","l","o","g","s">>

(***************************************************************************)
(* JavaScript values and string methods                                    *)
(***************************************************************************)
\* The value of a property that the object does not have.
Undef == "undefined"

\* A JSON object whose toString and valueOf members are not callable, such
\* as {"toString": 1, "valueOf": 1}: interpolating it in a template literal
\* throws a TypeError.
NoStr == "[unprintable object]"

Range(s) == { s[i] : i \in DOMAIN s }

Min(S) == CHOOSE m \in S : \A n \in S : m <= n

\* args.k
Get(args, k) == IF k \in DOMAIN args THEN args[k] ELSE Undef

\* s.startsWith(p)
StartsWith(s, p) == /\ Len(p) <= Len(s)
                    /\ SubSeq(s, 1, Len(p)) = p

\* s.indexOf(p), 1-based; 0 when p does not occur in s
IndexOf(s, p) ==
  LET at == { i \in 1..(Len(s) - Len(p) + 1) : SubSeq(s, i, i + Len(p) - 1) = p }
  IN  IF at = {} THEN 0 ELSE Min(at)

\* Replace that rewrites every occurrence of p, as a global pattern would
RECURSIVE ReplaceAll(_, _, _)
ReplaceAll(s, p, r) ==
  LET i == IndexOf(s, p)
  IN  IF i = 0 \/ p = <<>> THEN s
      ELSE SubSeq(s, 1, i - 1) \o r \o ReplaceAll(SubSeq(s, i + Len(p), Len(s)), p, r)

\* s.replace(p, r) with a string pattern: the first occurrence only
Replace(s, p, r) ==
  LET i == IndexOf(s, p)
  IN  IF i = 0 THEN s
      ELSE SubSeq(s, 1, i - 1) \o r \o SubSeq(s, i + Len(p), Len(s))

\* `${v}`: fails exactly on a value that cannot be converted to a string
Printable(v) == v # NoStr

\* v.toLowerCase() on the values drawn here
ToLowerCase(v) == IF v = "READ" THEN "read" ELSE IF v = "WRITE" THEN "write" ELSE v

(***************************************************************************)
(* Errors, results and handler outcomes                                    *)
(***************************************************************************)
\* new Error(`${prefix}${detail}`)
Error(prefix, detail) ==
  [name |-> "Error", message |-> [prefix |-> prefix, detail |-> detail],
   stack |-> "index.ts"]

\* The TypeError a template literal or a method call on undefined raises in `site`
TypeError(site) ==
  [name |-> "TypeError", message |-> [prefix |-> "TypeError", detail |-> <<>>],
   stack |-> site]

Throw(e) == [kind |-> "throw", error |-> e]

\* A ToolResponse: one text item; isError is FALSE when the property is not set
ToolResponse(text, isError) ==
  [content |-> << [type |-> "text", text |-> text] >>, isError |-> isError]

Return(payload) == [kind |-> "return", payload |-> payload]

\* The result a tool function returns from its try block
Done(fn, recv) == Return(ToolResponse([by |-> fn, path |-> "ok", of |-> recv], FALSE))

\* The result a tool function returns from its own catch block
Failed(fn, recv) == Return(ToolResponse([by |-> fn, path |-> "failed", of |-> recv], TRUE))

\* The result a helper of a tool function returns from a catch block of its
\* own, which sets no isError: gitConfig, runPrettier, runComplexityAnalysis
\* and runTypeScriptCheck
Unflagged(fn, recv) ==
  Return(ToolResponse([by |-> fn, path |-> "failed", of |-> recv], FALSE))

(***************************************************************************)
(* Tool functions.  Each takes the positional parameters the dispatcher    *)
(* passes and yields the set of outcomes the function can have: which one  *)
(* happens depends on the file system and the commands it runs.            *)
(***************************************************************************)
executeCommand(recv) ==
  LET command == recv[1]
  IN  IF ~Printable(command) THEN { Throw(TypeError("executeCommand")) }
      ELSE IF command = Undef THEN { Failed("executeCommand", recv) }
      ELSE { Done("executeCommand", recv), Failed("executeCommand", recv) }

fileOperations(recv) ==
  LET operation == recv[1]
      filePath  == recv[2]
  IN  IF ~Printable(operation) \/ ~Printable(filePath)
        THEN { Throw(TypeError("fileOperations")) }
      ELSE IF operation \in {"read", "write", "search"}
        THEN { Done("fileOperations", recv), Failed("fileOperations", recv) }
      ELSE { Failed("fileOperations", recv) }

gitOperations(recv) ==
  LET action == recv[1]
  IN  IF ~Printable(action) THEN { Throw(TypeError("gitOperations")) }
      ELSE IF action \in {"clone", "commit", "push", "status"}
        THEN { Done("gitOperations", recv), Failed("gitOperations", recv) }
      ELSE IF action = "config"
        THEN { Done("gitOperations", recv), Unflagged("gitOperations", recv) }
      ELSE { Failed("gitOperations", recv) }

dependencyManager(recv) ==
  LET action      == recv[1]
      packageName == recv[2]
  IN  IF ~Printable(action) \/ ~Printable(packageName)
        THEN { Throw(TypeError("dependencyManager")) }
      ELSE IF action \in {"install", "update"}
        THEN { Done("dependencyManager", recv), Failed("dependencyManager", recv) }
      ELSE { Failed("dependencyManager", recv) }

codeAnalysis(recv) ==
  LET tool == recv[1]
      file == recv[2]
  IN  IF ~Printable(tool) \/ ~Printable(file)
        THEN { Throw(TypeError("codeAnalysis")) }
      ELSE IF tool = Undef THEN { Failed("codeAnalysis", recv) }
      ELSE IF tool \in {"prettier", "complexity", "typescript"}
        THEN { Done("codeAnalysis", recv), Unflagged("codeAnalysis", recv) }
      ELSE { Done("codeAnalysis", recv), Failed("codeAnalysis", recv) }

\* The logging line interpolates task before the try block; inside it
\* task.toLowerCase() on undefined and a failed API call are both caught.
aiCodeAssistant(recv) ==
  LET task == recv[1]
  IN  IF ~Printable(task) THEN { Throw(TypeError("aiCodeAssistant")) }
      ELSE IF task = Undef THEN { Failed("aiCodeAssistant", recv) }
      ELSE { Done("aiCodeAssistant", recv), Failed("aiCodeAssistant", recv) }

environmentManager(recv) ==
  LET action == recv[1]
  IN  IF ~Printable(action) THEN { Throw(TypeError("environmentManager")) }
      ELSE IF action = Undef THEN { Failed("environmentManager", recv) }
      ELSE IF ToLowerCase(action) \in {"read", "write", "list"}
        THEN { Done("environmentManager", recv), Failed("environmentManager", recv) }
      ELSE { Failed("environmentManager", recv) }

databaseTools(recv) ==
  LET query    == recv[1]
      database == recv[2]
  IN  IF ~Printable(database) \/ ~Printable(query)
        THEN { Throw(TypeError("databaseTools")) }
      ELSE { Done("databaseTools", recv), Failed("databaseTools", recv) }

\* The file-system and shell calls that the three tool functions with an
\* action switch make for the parameters they are given: none before the
\* logging line has passed, none in the default case
Effects(fn, recv) ==
  LET action == recv[1]
  IN  CASE fn = "fileOperations" ->
             IF ~Printable(action) \/ ~Printable(recv[2]) THEN {}
             ELSE IF action = "read" THEN {"readFile"}
             ELSE IF action = "write" THEN {"writeFile"}
             ELSE IF action = "search" THEN {"exec"}
             ELSE {}
        [] fn = "dependencyManager" ->
             IF ~Printable(action) \/ ~Printable(recv[2]) THEN {}
             ELSE IF action \in {"install", "update"} THEN {"exec"}
             ELSE {}
        [] fn = "environmentManager" ->
             IF ~Printable(action) \/ action = Undef THEN {}
             ELSE IF ToLowerCase(action) \in {"read", "list"} THEN {"readFile"}
             ELSE IF ToLowerCase(action) = "write" THEN {"readFile", "writeFile"}
             ELSE {}

\* The imported tool functions by name
ToolFunction(fn, recv) ==
  CASE fn = "executeCommand"     -> executeCommand(recv)
    [] fn = "fileOperations"     -> fileOperations(recv)
    [] fn = "gitOperations"      -> gitOperations(recv)
    [] fn = "dependencyManager"  -> dependencyManager(recv)
    [] fn = "codeAnalysis"       -> codeAnalysis(recv)
    [] fn = "aiCodeAssistant"    -> aiCodeAssistant(recv)
    [] fn = "environmentManager" -> environmentManager(recv)
    [] fn = "databaseTools"      -> databaseTools(recv)

(***************************************************************************)
(* Prompt functions: synchronous, no try block, one outcome each           *)
(***************************************************************************)
\* A PromptResponse: one user message with one text item
PromptResponse(text) ==
  [messages |-> << [role |-> "user", content |-> [type |-> "text", text |-> text]] >>]

getCodeReviewPrompt(recv) ==
  LET code == recv[1]
  IN  IF ~Printable(code) THEN { Throw(TypeError("getCodeReviewPrompt")) }
      ELSE { Return(PromptResponse([by |-> "getCodeReviewPrompt", of |-> recv])) }

getDebugAssistantPrompt(recv) ==
  LET error == recv[1]
      code  == recv[2]
  IN  IF ~Printable(error) \/ ~Printable(code) \/ error = Undef
        THEN { Throw(TypeError("getDebugAssistantPrompt")) }
      ELSE { Return(PromptResponse([by |-> "getDebugAssistantPrompt", of |-> recv])) }

getDeploymentGuidePrompt(recv) ==
  LET environment == recv[1]
  IN  IF ~Printable(environment) THEN { Throw(TypeError("getDeploymentGuidePrompt")) }
      ELSE { Return(PromptResponse([by |-> "getDeploymentGuidePrompt", of |-> recv])) }

PromptFunction(fn, recv) ==
  CASE fn = "getCodeReviewPrompt"      -> getCodeReviewPrompt(recv)
    [] fn = "getDebugAssistantPrompt"  -> getDebugAssistantPrompt(recv)
    [] fn = "getDeploymentGuidePrompt" -> getDeploymentGuidePrompt(recv)

(***************************************************************************)
(* Resource functions: every failure is caught inside and reported in the  *)
(* text of the one contents item                                           *)
(***************************************************************************)
ResourceResponse(uri, mimeType, text) ==
  [contents |-> << [uri |-> uri, mimeType |-> mimeType, text |-> text] >>]

getProjectFiles(recv) ==
  LET path == recv[1]
  IN  { Return(ResourceResponse(FilesPrefix \o path, "text/plain",
                                [by |-> "getProjectFiles", path |-> how, of |-> recv]))
        : how \in {"ok", "failed"} }

\* getGitStatus without its catch block: a failed git command is thrown on
getGitStatusUncaught(recv) ==
  { Return(ResourceResponse(GitStatusUri, "application/json",
                            [by |-> "getGitStatus", path |-> "ok", of |-> recv])),
    Throw(Error("Command failed: ", <<"g","i","t">>)) }

getGitStatus(recv) ==
  { Return(ResourceResponse(GitStatusUri, "application/json",
                            [by |-> "getGitStatus", path |-> how, of |-> recv]))
    : how \in {"ok", "failed"} }

getConfig(recv) ==
  { Return(ResourceResponse(ConfigUri, "application/json",
                            [by |-> "getConfig", path |-> "ok", of |-> recv])) }

getLogs(recv) ==
  { Return(ResourceResponse(LogsUri, "text/plain",
                            [by |-> "getLogs", path |-> "ok", of |-> recv])) }

ResourceFunction(fn, recv) ==
  CASE fn = "getProjectFiles" -> getProjectFiles(recv)
    [] fn = "getGitStatus"    -> getGitStatus(recv)
    [] fn = "getConfig"       -> getConfig(recv)
    [] fn = "getLogs"         -> getLogs(recv)

\* The category each imported function belongs to (the three import groups)
HandlerCategory(fn) ==
  IF fn \in {"executeCommand", "fileOperations", "gitOperations", "dependencyManager",
             "codeAnalysis", "aiCodeAssistant", "environmentManager", "databaseTools"}
    THEN "tool"
  ELSE IF fn \in {"getProjectFiles", "getGitStatus", "getConfig", "getLogs"}
    THEN "resource"
  ELSE "prompt"

(***************************************************************************)
(* The dispatching request handlers of index.ts.  A request is             *)
(* [cat, name, hasArgs, args]: hasArgs is FALSE when request.params has no *)
(* arguments property (args is then undefined).  A handler yields the set  *)
(* of runs it can have, a run being the calls it made, its response and    *)
(* what the handler itself wrote with console.error.                       *)
(***************************************************************************)
EmptyBag == [k \in {} |-> Undef]

\* The handler returned payload to the transport
Result(payload) == [kind |-> "result", payload |-> payload]

\* The handler's promise rejected with e: the transport reports an error
Rejected(e) == [kind |-> "error", error |-> e]

\* One call of an imported function: its positional parameters and outcome
Invocation(fn, recv, oc) == [fn |-> fn, recv |-> recv, outcome |-> oc]

\* Extract with a default in place of undefined: a parameter the caller did
\* not give arrives as the empty string
ExtractDefaulted(keys, args) ==
  [i \in 1..Len(keys) |-> IF keys[i] \in DOMAIN args THEN args[keys[i]] ELSE ""]

\* The positional parameters of a call: args.k (or args?.k) for each k of keys
Extract(keys, args) == [i \in 1..Len(keys) |-> Get(args, keys[i])]

\* MissingArguments that also refuses an object without keys
MissingOrEmptyArguments(req) == ~req.hasArgs \/ DOMAIN req.args = {}

\* if (!args)
MissingArguments(req) == ~req.hasArgs

\* The catch block of the tool-call handler: a result without isError
Caught(e) ==
  Result(ToolResponse([fmt |-> "Error: %s\n\nStack trace:\n%s",
                       error |-> <<e.name, e.message>>, stack |-> e.stack], FALSE))

\* A catch block that reports to the caller only
ConsoleErrorSilent(e) == <<>>

\* console.error("Tool execution error:", error) in the catch block: the
\* lines the handler writes to the server's log
ConsoleError(e) == << [label |-> "Tool execution error:", error |-> e] >>

\* The cases of the tool switch, in source order
ToolCases ==
  << [label |-> execute_command,     fn |-> "executeCommand",
      keys |-> <<"command">>],
     [label |-> file_operations,     fn |-> "fileOperations",
      keys |-> <<"operation", "path", "content">>],
     [label |-> git_operations,      fn |-> "gitOperations",
      keys |-> <<"action", "repo", "message">>],
     [label |-> dependency_manager,  fn |-> "dependencyManager",
      keys |-> <<"action", "package">>],
     [label |-> code_analysis,       fn |-> "codeAnalysis",
      keys |-> <<"tool", "file">>],
     [label |-> ai_code_assistant,   fn |-> "aiCodeAssistant",
      keys |-> <<"task", "code", "prompt">>],
     [label |-> environment_manager, fn |-> "environmentManager",
      keys |-> <<"action", "key", "value">>],
     [label |-> database_tools,      fn |-> "databaseTools",
      keys |-> <<"query", "database">>] >>

\* The cases whose label is strictly equal to name; the switch runs the first
ToolCasesMatching(name) == { i \in DOMAIN ToolCases : ToolCases[i].label = name }

\* ToolSettled that rebuilds the result from its text and loses isError
ToolSettledRewrapped(oc) ==
  IF oc.kind = "return"
    THEN Result(ToolResponse(oc.payload.content[1].text, FALSE))
  ELSE Caught(oc.error)

\* ToolSettled without the catch block: what the function throws rejects
\* the request
ToolSettledRethrown(oc) ==
  IF oc.kind = "return" THEN Result(oc.payload) ELSE Rejected(oc.error)

\* The response to a tool call once the awaited function has settled
ToolSettled(oc) == IF oc.kind = "return" THEN Result(oc.payload) ELSE Caught(oc.error)

\* What the catch block logs once the awaited function has settled
ToolLog(oc) == IF oc.kind = "return" THEN <<>> ELSE ConsoleError(oc.error)

\* A run of the tool-call handler in which it throws e itself
ToolThrew(e) == [calls |-> <<>>, response |-> Caught(e), log |-> ConsoleError(e)]

\* UnknownTool whose message leaves the requested name out
UnknownToolUnnamed(req) == { ToolThrew(Error("Unknown tool: ", <<>>)) }

\* The default case of the tool switch
UnknownTool(req) == { ToolThrew(Error("Unknown tool: ", req.name)) }

\* switch (name) of the tool-call handler, inside its try block
ToolSwitch(req) ==
  LET m == ToolCasesMatching(req.name)
  IN  IF m = {} THEN UnknownTool(req)
      ELSE LET c    == ToolCases[Min(m)]
               recv == Extract(c.keys, req.args)
           IN  { [calls |-> << Invocation(c.fn, recv, oc) >>, response |-> ToolSettled(oc),
                  log |-> ToolLog(oc)]
                 : oc \in ToolFunction(c.fn, recv) }

\* IsProjectFile that tests the scheme only: uri.startsWith("project://")
IsProjectUri(uri) == StartsWith(uri, SubSeq(FilesPrefix, 1, 10))

\* uri.startsWith("project://files/")
IsProjectFile(uri) == StartsWith(uri, FilesPrefix)

\* The conditions of the if / else-if chain of the resource-read handler
ResourceBranchTest(i, uri) ==
  CASE i = 1 -> IsProjectFile(uri)
    [] i = 2 -> uri = GitStatusUri
    [] i = 3 -> uri = ConfigUri
    [] i = 4 -> uri = LogsUri

ResourceBranches == <<"getProjectFiles", "getGitStatus", "getConfig", "getLogs">>

\* The branches whose condition holds of uri; the chain runs the first
ResourceBranchesMatching(uri) ==
  { i \in DOMAIN ResourceBranches : ResourceBranchTest(i, uri) }

\* An un-caught outcome: a return is the result, a throw rejects the request
Settled(oc) == IF oc.kind = "return" THEN Result(oc.payload) ELSE Rejected(oc.error)

ReadResourceRequestHandler(req) ==
  LET uri == req.name
      m   == ResourceBranchesMatching(uri)
  IN  IF m = {}
        THEN { [calls |-> <<>>, response |-> Rejected(Error("Unknown resource: ", uri)),
                 log |-> <<>>] }
      ELSE LET i    == Min(m)
               recv == IF i = 1 THEN << Replace(uri, FilesPrefix, <<>>) >> ELSE <<>>
           IN  { [calls |-> << Invocation(ResourceBranches[i], recv, oc) >>,
                  response |-> Settled(oc), log |-> <<>>]
                 : oc \in ResourceFunction(ResourceBranches[i], recv) }

\* The cases of the prompt switch, in source order
PromptCases ==
  << [label |-> code_review,      fn |-> "getCodeReviewPrompt",
      keys |-> <<"code">>],
     [label |-> debug_assistant,  fn |-> "getDebugAssistantPrompt",
      keys |-> <<"error", "code">>],
     [label |-> deployment_guide, fn |-> "getDeploymentGuidePrompt",
      keys |-> <<"environment">>] >>

PromptCasesMatching(name) == { i \in DOMAIN PromptCases : PromptCases[i].label = name }

\* UnknownPrompt that hands a name it does not know to the tool switch
UnknownPromptTriesTools(req) == ToolSwitch(req)

\* The default case of the prompt switch
UnknownPrompt(req) ==
  { [calls |-> <<>>, response |-> Rejected(Error("Unknown prompt: ", req.name)),
     log |-> <<>>] }

GetPromptRequestHandler(req) ==
  LET m == PromptCasesMatching(req.name)
  IN  IF m = {} THEN UnknownPrompt(req)
      ELSE LET c    == PromptCases[Min(m)]
               recv == Extract(c.keys, req.args)
           IN  { [calls |-> << Invocation(c.fn, recv, oc) >>, response |-> Settled(oc),
                  log |-> <<>>]
                 : oc \in PromptFunction(c.fn, recv) }

(***************************************************************************)
(* The listing request handlers of index.ts: constant results              *)
(***************************************************************************)
\* One entry of the tools list: its name, the keys its inputSchema requires
\* and, where a property of the schema has an enum, that property and values
Tool(name, required, enumKey, enum) ==
  [name |-> name, required |-> required, enumKey |-> enumKey, enum |-> enum]

\* The path of the URI template the resources list advertises
PathTemplate == <<"{","p","a","t","h","}">>

\* ListToolsRequestHandler that leaves the last tool out
ListToolsWithoutLast ==
  { [calls |-> <<>>, log |-> <<>>,
     response |-> Result([tools |->
       << Tool(execute_command,     {"command"},           "none", {}),
          Tool(file_operations,     {"operation", "path"}, "operation",
               {"read", "write", "search"}),
          Tool(git_operations,      {"action"},            "none", {}),
          Tool(dependency_manager,  {"action", "package"}, "action",
               {"install", "update"}),
          Tool(code_analysis,       {"tool", "file"},      "none", {}),
          Tool(ai_code_assistant,   {"task", "code"},      "none", {}),
          Tool(environment_manager, {"action"},            "action",
               {"read", "write", "list"}) >>])] }

ListToolsRequestHandler ==
  { [calls |-> <<>>, log |-> <<>>,
     response |-> Result([tools |->
       << Tool(execute_command,     {"command"},           "none", {}),
          Tool(file_operations,     {"operation", "path"}, "operation",
               {"read", "write", "search"}),
          Tool(git_operations,      {"action"},            "none", {}),
          Tool(dependency_manager,  {"action", "package"}, "action",
               {"install", "update"}),
          Tool(code_analysis,       {"tool", "file"},      "none", {}),
          Tool(ai_code_assistant,   {"task", "code"},      "none", {}),
          Tool(environment_manager, {"action"},            "action",
               {"read", "write", "list"}),
          Tool(database_tools,      {"query"},             "none", {}) >>])] }

ListResourcesRequestHandler ==
  { [calls |-> <<>>, log |-> <<>>,
     response |-> Result([resources |->
       << [uri |-> FilesPrefix \o PathTemplate, mimeType |-> "text/plain"],
          [uri |-> GitStatusUri,                mimeType |-> "application/json"],
          [uri |-> ConfigUri,                   mimeType |-> "application/json"],
          [uri |-> LogsUri,                     mimeType |-> "text/plain"] >>])] }

ListPromptsRequestHandler ==
  { [calls |-> <<>>, log |-> <<>>,
     response |-> Result([prompts |->
       << [name |-> code_review,      required |-> {"code"}],
          [name |-> debug_assistant,  required |-> {"error"}],
          [name |-> deployment_guide, required |-> {"environment"}] >>])] }

(***************************************************************************)
(* The requests a client sends                                             *)
(***************************************************************************)
\* A name no switch handles
delete_all == <<"d","e","l","e","t","e","_","a","l","l">>

\* A key no case reads
ExtraKey == "extra"

ToolNames == { ToolCases[i].label : i \in DOMAIN ToolCases }

PromptNames == { PromptCases[i].label : i \in DOMAIN PromptCases }

\* The values a caller supplies under key k
ArgValues(k) ==
  CASE k = "operation" -> {"read", "bogus", NoStr}
    [] k = "action"    -> {"read", "WRITE", "install", "status", "config", "bogus", NoStr}
    [] k = "database"  -> {"sqlite", "postgres", NoStr}
    [] k \in {"command", "path", "package", "tool", "file", "query",
              "code", "error", "environment", "task"} -> {"s", NoStr}
    [] OTHER           -> {"s"}

\* Every parameter bag over a subset of the keys K
RECURSIVE BagsOver(_)
BagsOver(K) ==
  IF K = {} THEN { EmptyBag }
  ELSE LET k == CHOOSE x \in K : TRUE
           B == BagsOver(K \ {k})
       IN  B \cup { b @@ (k :> v) : b \in B, v \in ArgValues(k) }

\* The keys the matching cases read, and one more
InputKeys(cases, name) ==
  UNION { Range(cases[i].keys) : i \in { j \in DOMAIN cases : cases[j].label = name } }
    \cup { ExtraKey }

Request(cat, name, hasArgs, args) ==
  [cat |-> cat, name |-> name, hasArgs |-> hasArgs, args |-> args]

RequestsFor(cat, cases, names) ==
  { Request(cat, n, FALSE, EmptyBag) : n \in names }
    \cup UNION { { Request(cat, n, TRUE, b) : b \in BagsOver(InputKeys(cases, n)) }
                 : n \in names }

ToolRequests ==
  RequestsFor("tool", ToolCases, ToolNames \cup { delete_all, code_review, ConfigUri })

PromptRequests ==
  RequestsFor("prompt", PromptCases, PromptNames \cup { delete_all, execute_command, LogsUri })

\* Paths asked for under project://files/
Paths == { <<>>, <<"a">>, <<".", ".", "/", "a">>, FilesPrefix \o <<"a">>, PathTemplate }

UriInputs ==
  { FilesPrefix \o p : p \in Paths }
    \cup { GitStatusUri, ConfigUri, LogsUri }
    \cup { u \o <<"/">> : u \in { GitStatusUri, ConfigUri, LogsUri } }
    \cup { SubSeq(FilesPrefix, 1, Len(FilesPrefix) - 1),
           <<"x">> \o FilesPrefix \o <<"a">>,
           execute_command, code_review, <<>> }

ResourceRequests == { Request("resource", u, FALSE, EmptyBag) : u \in UriInputs }

\* A listing request of the given method: it has no name and no arguments
ListRequest(method) == Request(method, <<>>, FALSE, EmptyBag)

\* Who is at the other end of the transport
Callers == {"owner", "stranger"}

(***************************************************************************)
(* The .env file and the functions that await it.  A text is held as the   *)
(* sequence of its lines, which is what split("\n") yields and join("\n")  *)
(* takes; a line KEY=value is a record.  Keys and values are atoms without *)
(* "=", newline or surrounding blanks.  readFile fails exactly when the     *)
(* file does not exist.                                                    *)
(***************************************************************************)
Line(key, value) == [key |-> key, value |-> value, eq |-> TRUE]

\* The line without characters
EmptyLine == [key |-> "", value |-> "", eq |-> FALSE]

NoFile == [exists |-> FALSE, lines |-> <<>>]

File(lines) == [exists |-> TRUE, lines |-> lines]

\* The keys of HARDCODED_SECRETS
HardcodedSecrets ==
  {"OPENAI_API_KEY", "DATABASE_PASSWORD", "JWT_SECRET", "AWS_SECRET_ACCESS_KEY",
   "STRIPE_SECRET_KEY"}

\* The variables the process was started with
ProcessEnv == {"PATH", "OPENAI_API_KEY"}

\* envContent.split("\n") in writeEnvVariable: envContent is the text read,
\* or "" when readFile threw, and "" splits into one empty line
ReadOrEmpty(file) == IF file.exists THEN file.lines ELSE << EmptyLine >>

\* line.startsWith(key + "=")
HasKey(line, key) == line.eq /\ line.key = key

\* The index of the first line that starts with key=, 0 when there is none
FirstWithKey(lines, key) ==
  LET at == { i \in DOMAIN lines : HasKey(lines[i], key) }
  IN  IF at = {} THEN 0 ELSE Min(at)

\* The loop of writeEnvVariable and the push that follows it
SetLine(lines, key, value) ==
  LET i == FirstWithKey(lines, key)
  IN  IF i = 0 THEN Append(lines, Line(key, value))
      ELSE [lines EXCEPT ![i] = Line(key, value)]

\* writeEnvVariable that appends without looking for the key
writeEnvVariableAppending(key, value, seen) ==
  File(Append(ReadOrEmpty(seen), Line(key, value)))

\* What writeEnvVariable hands to writeFile: the lines of the file as it
\* read it (seen) with the one line set
writeEnvVariable(key, value, seen) ==
  File(SetLine(ReadOrEmpty(seen), key, value))

\* The result of writeEnvVariable once writeFile has succeeded
Written(key, value) ==
  Return(ToolResponse([by |-> "writeEnvVariable", key |-> key, value |-> value], FALSE))

\* The result of readEnvVariable for a key that is neither a hardcoded
\* secret nor in process.env, from the file it read
readEnvVariable(key, file) ==
  LET i == FirstWithKey(file.lines, key)
  IN  IF file.exists /\ i # 0
        THEN Return(ToolResponse([by |-> "readEnvVariable", key |-> key,
                                  value |-> file.lines[i].value, from |-> ".env"], FALSE))
      ELSE Return(ToolResponse([by |-> "readEnvVariable", key |-> key,
                                value |-> Undef, from |-> "not found"], FALSE))

\* getConfigResult that leaves .env out of the configuration
getConfigWithoutEnv(seen) ==
  Return(ResourceResponse(ConfigUri, "application/json",
                          [by |-> "getConfig", env |-> NoFile]))

\* The result of getConfig: config.env is the text of .env it read (seen),
\* or "File not found"
getConfigResult(seen) ==
  Return(ResourceResponse(ConfigUri, "application/json",
                          [by |-> "getConfig", env |-> seen]))

(***************************************************************************)
(* readEnvVariable and writeEnvVariable on the text of .env.  A text is a  *)
(* sequence of characters; keys and values are texts, so that "=", blanks  *)
(* and newlines inside them act as they do in the file.                    *)
(***************************************************************************)
NL == "\n"

\* text.split("\n"): the text without newline is one line, "" included
RECURSIVE Split(_)
Split(text) ==
  LET at == { i \in DOMAIN text : text[i] = NL }
  IN  IF at = {} THEN << text >>
      ELSE << SubSeq(text, 1, Min(at) - 1) >>
             \o Split(SubSeq(text, Min(at) + 1, Len(text)))

\* lines.join("\n")
RECURSIVE Join(_)
Join(lines) ==
  IF lines = <<>> THEN <<>>
  ELSE IF Len(lines) = 1 THEN lines[1]
  ELSE lines[1] \o << NL >> \o Join(Tail(lines))

\* White space that trim() removes
Blank(c) == c \in {" ", "\t", NL}

\* s.trim()
Trim(s) ==
  LET solid == { i \in DOMAIN s : ~Blank(s[i]) }
  IN  IF solid = {} THEN <<>>
      ELSE SubSeq(s, Min(solid), CHOOSE m \in solid : \A n \in solid : n <= m)

\* The index of the first line with line.startsWith(key + "="), 0 if none
FirstStartingWith(lines, key) ==
  LET at == { i \in DOMAIN lines : StartsWith(lines[i], key \o <<"=">>) }
  IN  IF at = {} THEN 0 ELSE Min(at)

JWT_SECRET == <<"J","W","T","_","S","E","C","R","E","T">>
OPENAI_API_KEY == <<"O","P","E","N","A","I","_","A","P","I","_","K","E","Y">>
DATABASE_PASSWORD ==
  <<"D","A","T","A","B","A","S","E","_","P","A","S","S","W","O","R","D">>
AWS_SECRET_ACCESS_KEY ==
  <<"A","W","S","_","S","E","C","R","E","T","_","A","C","C","E","S","S","_","K","E","Y">>
STRIPE_SECRET_KEY ==
  <<"S","T","R","I","P","E","_","S","E","C","R","E","T","_","K","E","Y">>
PATH == <<"P","A","T","H">>
constructor == <<"c","o","n","s","t","r","u","c","t","o","r">>

\* The object literal HARDCODED_SECRETS: each value stands for its text
HARDCODED_SECRETS ==
  (OPENAI_API_KEY :> <<"sk-proj-abc123...">>)
    @@ (DATABASE_PASSWORD :> <<"SuperSecret123!">>)
    @@ (JWT_SECRET :> <<"my-super-secret-jwt-key-do-not-share">>)
    @@ (AWS_SECRET_ACCESS_KEY :> <<"wJalrXUtnFEMI...">>)
    @@ (STRIPE_SECRET_KEY :> <<"sk_live_51HqD8e...">>)

\* Property names every object literal inherits from Object.prototype
ObjectPrototype == { constructor, <<"t","o","S","t","r","i","n","g">> }

\* No value: the property is not there
Missing == << Undef >>

\* HARDCODED_SECRETS[key]: an own property, else an inherited one, else
\* undefined
HardcodedSecret(key) ==
  IF key \in DOMAIN HARDCODED_SECRETS THEN HARDCODED_SECRETS[key]
  ELSE IF key \in ObjectPrototype THEN <<"function () { [native code] }">>
  ELSE Missing

\* A variable the server's process was started with, set to the empty text
EMPTY_VAR == <<"E">>

\* process.env[key], for a process started with PATH set and EMPTY_VAR
\* set to ""
ProcessEnvValue(key) ==
  IF key = PATH THEN <<"/usr/bin">>
  ELSE IF key = EMPTY_VAR THEN <<>>
  ELSE Missing

\* if (v): neither undefined nor the empty text
Truthy(v) == v # Missing /\ v # <<>>

\* The .env file as text
NoText == [exists |-> FALSE, text |-> <<>>]

Text(t) == [exists |-> TRUE, text |-> t]

\* The text item of a readEnvVariable result
ReadResult(key, value, from) ==
  Return(ToolResponse([by |-> "readEnvVariable", key |-> key, value |-> value,
                       from |-> from], FALSE))

\* readEnvVariableText that looks into .env before the hardcoded secrets and
\* the process environment
readEnvFileFirst(key, file) ==
  LET lines == Split(file.text)
      i     == FirstStartingWith(lines, key)
  IN  IF file.exists /\ i # 0
        THEN ReadResult(key, Trim(SubSeq(lines[i], Len(key) + 2, Len(lines[i]))), ".env")
      ELSE IF Truthy(HardcodedSecret(key))
        THEN ReadResult(key, HardcodedSecret(key), "hardcoded")
      ELSE IF Truthy(ProcessEnvValue(key))
        THEN ReadResult(key, ProcessEnvValue(key), "process.env")
      ELSE ReadResult(key, Missing, "not found")

\* readEnvVariable(key) when .env is as given: the hardcoded secrets, then
\* process.env, then the lines of .env in order, then not found; a failed
\* readFile is caught and leads to not found
readEnvVariableText(key, file) ==
  IF Truthy(HardcodedSecret(key))
    THEN ReadResult(key, HardcodedSecret(key), "hardcoded")
  ELSE IF Truthy(ProcessEnvValue(key))
    THEN ReadResult(key, ProcessEnvValue(key), "process.env")
  ELSE LET lines == Split(file.text)
           i     == FirstStartingWith(lines, key)
       IN  IF file.exists /\ i # 0
             THEN ReadResult(key, Trim(SubSeq(lines[i], Len(key) + 2, Len(lines[i]))),
                             ".env")
           ELSE ReadResult(key, Missing, "not found")

\* writeEnvVariableText that sets every line that starts with key=
writeEnvEveryLine(key, value, file) ==
  LET lines == Split(IF file.exists THEN file.text ELSE <<>>)
      line  == key \o <<"=">> \o value
  IN  IF FirstStartingWith(lines, key) = 0 THEN Text(Join(Append(lines, line)))
      ELSE Text(Join([j \in DOMAIN lines |->
                        IF StartsWith(lines[j], key \o <<"=">>) THEN line ELSE lines[j]]))

\* The text writeEnvVariable(key, value) hands to writeFile when it read
\* .env as given: envContent is "" when readFile failed
writeEnvVariableText(key, value, file) ==
  LET lines == Split(IF file.exists THEN file.text ELSE <<>>)
      i     == FirstStartingWith(lines, key)
      line  == key \o <<"=">> \o value
  IN  IF i = 0 THEN Text(Join(Append(lines, line)))
      ELSE Text(Join([lines EXCEPT ![i] = line]))

(***************************************************************************)
(* State                                                                   *)
(***************************************************************************)
VARIABLES
  pc,               \* the next module-level statement of index.ts: 1..6 the
                    \* setRequestHandler calls, 7 the call of main(), 8 running
  requestHandlers,  \* the request schemas the server has a handler for
  connected,        \* the server is connected to its transport
  last,             \* the latest request served: the request, its caller, the calls of
                    \* imported functions it made, the response, and what
                    \* the request handler logged
  streak,           \* how many times in a row that same request was served
  streakCalls,      \* the calls made while serving them
  tasks,            \* the requests in flight, each where its handler awaits
  dotenv,           \* the .env file as text, for calls of environment_manager
                    \* that run one after the other
  envOp,            \* the latest of these calls and its result
  envWrites,        \* the writes among them that succeeded, in order
  envCounts,        \* for each key written: the number of lines of .env that
                    \* started with key= before its first write
  dbTasks,          \* the database_tools calls in flight, each where it awaits
  users,            \* the users table of ./dev-database.db
  dbOpen,           \* the number of database handles that are open
  envFile,          \* the .env file
  envAtStart        \* the .env file as it was when the server started

\* The state of the environment_manager calls that run one after the other
envVars == <<dotenv, envOp, envWrites, envCounts>>

\* The state of the database_tools calls
dbVars == <<dbTasks, users, dbOpen>>

vars == <<pc, requestHandlers, connected, last, streak, streakCalls,
          tasks, envFile, envAtStart, envVars, dbVars>>

\* The most requests in flight at once that are followed
MaxInFlight == 2

Slots == 1..MaxInFlight

\* A request in flight: the request, the function called for it and its
\* parameters, the await it is parked at, the .env it has read, the outcome
\* of the function and the response given
Task(req, fn, recv, at, seen, outcome, response) ==
  [req |-> req, fn |-> fn, recv |-> recv, at |-> at, seen |-> seen,
   outcome |-> outcome, response |-> response]

IdleTask ==
  Task(Request("none", <<>>, FALSE, EmptyBag), "none", <<>>, "idle", NoFile,
       [kind |-> "none"], [kind |-> "none"])

\* The setRequestHandler calls in source order
Registrations ==
  <<"ListTools", "CallTool", "ListResources", "ReadResource", "ListPrompts", "GetPrompt">>

NoRequest ==
  [req |-> Request("none", <<>>, FALSE, EmptyBag), caller |-> "none", calls |-> <<>>,
   response |-> [kind |-> "none"], log |-> <<>>]

\* No environment_manager call has been followed yet
NoOp == [op |-> "none", key |-> <<>>, value |-> <<>>, before |-> NoText,
         result |-> [kind |-> "none"]]

\* No key has been written
NoCounts == [k \in {} |-> 0]

\* No database_tools call has been made
IdleCall == [at |-> "idle", query |-> Undef, database |-> Undef, handle |-> "none",
             outcome |-> [kind |-> "none"]]

\* ./dev-database.db has no users table yet
NoTable == [exists |-> FALSE, rows |-> 0]

DbIdle ==
  /\ dbTasks = [s \in Slots |-> IdleCall]
  /\ users = NoTable
  /\ dbOpen = 0

EnvIdle ==
  /\ dotenv = NoText
  /\ envOp = NoOp
  /\ envWrites = <<>>
  /\ envCounts = NoCounts

Init ==
  /\ pc = 1
  /\ requestHandlers = {}
  /\ connected = FALSE
  /\ last = NoRequest
  /\ streak = 0
  /\ streakCalls = 0
  /\ tasks = [s \in Slots |-> IdleTask]
  /\ envFile = NoFile
  /\ envAtStart = NoFile
  /\ EnvIdle
  /\ DbIdle

\* server.setRequestHandler(schema, handler)
SetRequestHandler ==
  /\ pc \in DOMAIN Registrations
  /\ requestHandlers' = requestHandlers \cup { Registrations[pc] }
  /\ pc' = pc + 1
  /\ UNCHANGED <<connected, last, streak, streakCalls, tasks, envFile, envAtStart, envVars, dbVars>>

\* MainConnect run before the last setRequestHandler call
MainConnectEarly ==
  /\ pc = Len(Registrations)
  /\ ~connected
  /\ connected' = TRUE
  /\ UNCHANGED <<pc, requestHandlers, last, streak, streakCalls, tasks, envFile, envAtStart, envVars, dbVars>>

\* main(): await server.connect(transport)
MainConnect ==
  /\ pc = Len(Registrations) + 1
  /\ connected' = TRUE
  /\ pc' = pc + 1
  /\ UNCHANGED <<requestHandlers, last, streak, streakCalls, tasks, envFile, envAtStart, envVars, dbVars>>

\* The transport delivers a request to the handler registered for its schema
Delivered(schema) == connected /\ schema \in requestHandlers

\* One request served from arrival to response
Serve(req, caller, run) ==
  /\ last' = [req |-> req, caller |-> caller, calls |-> run.calls,
              response |-> run.response, log |-> run.log]
  /\ streak' = IF req = last.req THEN streak + 1 ELSE 1
  /\ streakCalls' = (IF req = last.req THEN streakCalls ELSE 0) + Len(run.calls)
  /\ streak' <= MaxRepeat
  /\ UNCHANGED <<pc, requestHandlers, connected, tasks, envFile, envAtStart, envVars, dbVars>>

\* CallToolRequestHandler that answers a repeated request from the response
\* it gave last time
CallToolCached(req) ==
  IF req = last.req /\ last.response.kind = "result"
    THEN { [calls |-> <<>>, response |-> last.response, log |-> <<>>] }
  ELSE IF MissingArguments(req) THEN { ToolThrew(Error("Missing arguments", <<>>)) }
  ELSE ToolSwitch(req)

\* The tool-call request handler: the missing-arguments check, then the switch
CallToolRequestHandler(req) ==
  IF MissingArguments(req) THEN { ToolThrew(Error("Missing arguments", <<>>)) }
  ELSE ToolSwitch(req)

\* The handler registered for each dispatching request schema
RequestHandler(schema, req) ==
  CASE schema = "CallTool"     -> CallToolRequestHandler(req)
    [] schema = "ReadResource" -> ReadResourceRequestHandler(req)
    [] schema = "GetPrompt"    -> GetPromptRequestHandler(req)

\* Invoke that lets only the owner through
InvokeIfOwner(schema, req, caller) ==
  IF caller = "owner" THEN RequestHandler(schema, req)
  ELSE { [calls |-> <<>>, response |-> Rejected(Error("Unauthorized", <<>>)),
          log |-> <<>>] }

\* The server calls the registered handler with the request; the handlers
\* are declared with that one parameter and nothing in it tells callers apart
Invoke(schema, req, caller) == RequestHandler(schema, req)

CallTool ==
  /\ Delivered("CallTool")
  /\ \E req \in ToolRequests, caller \in Callers :
        \E run \in Invoke("CallTool", req, caller) : Serve(req, caller, run)

ReadResource ==
  /\ Delivered("ReadResource")
  /\ \E req \in ResourceRequests, caller \in Callers :
        \E run \in Invoke("ReadResource", req, caller) : Serve(req, caller, run)

GetPrompt ==
  /\ Delivered("GetPrompt")
  /\ \E req \in PromptRequests, caller \in Callers :
        \E run \in Invoke("GetPrompt", req, caller) : Serve(req, caller, run)

ListTools ==
  /\ Delivered("ListTools")
  /\ \E caller \in Callers :
        \E run \in ListToolsRequestHandler : Serve(ListRequest("tools/list"), caller, run)

ListResources ==
  /\ Delivered("ListResources")
  /\ \E caller \in Callers :
        \E run \in ListResourcesRequestHandler : Serve(ListRequest("resources/list"), caller, run)

ListPrompts ==
  /\ Delivered("ListPrompts")
  /\ \E caller \in Callers :
        \E run \in ListPromptsRequestHandler : Serve(ListRequest("prompts/list"), caller, run)

Next ==
  \/ SetRequestHandler
  \/ MainConnect
  \/ ListTools
  \/ ListResources
  \/ ListPrompts
  \/ CallTool
  \/ ReadResource
  \/ GetPrompt

Spec == Init /\ [][Next]_vars

(***************************************************************************)
(* Requests in flight.  The request handlers are async functions: a        *)
(* handler runs until it awaits a file or a child process, other requests  *)
(* are taken up meanwhile, and it resumes when what it awaits completes.   *)
(***************************************************************************)
\* The keys written and read
EnvKeys == {"API_URL", "DEBUG"}

\* The requests followed while in flight
AsyncRequests ==
  { Request("tool", environment_manager, TRUE,
            [action |-> "write", key |-> k, value |-> "v"]) : k \in EnvKeys }
    \cup { Request("tool", environment_manager, TRUE, [action |-> "read", key |-> "API_URL"]),
           Request("tool", execute_command, TRUE, [command |-> "s"]),
           Request("resource", ConfigUri, FALSE, EmptyBag) }

\* The .env files the server may find when it starts
InitialEnvFiles == { NoFile, File(<< Line("API_URL", "old") >>) }

\* The function has settled without awaiting anything
Settle(req, fn, recv, oc) == Task(req, fn, recv, "settled", NoFile, oc, [kind |-> "none"])

\* The function is parked at an await
Await(req, fn, recv, at) ==
  Task(req, fn, recv, at, NoFile, [kind |-> "none"], [kind |-> "none"])

\* environmentManager up to its first await
environmentManagerStart(req, recv) ==
  LET fn     == "environmentManager"
      action == recv[1]
      key    == recv[2]
      value  == recv[3]
  IN  IF ~Printable(action) THEN Settle(req, fn, recv, Throw(TypeError(fn)))
      ELSE IF action = Undef THEN Settle(req, fn, recv, Failed(fn, recv))
      ELSE IF ToLowerCase(action) = "read"
        THEN IF key \in HardcodedSecrets \cup ProcessEnv
               THEN Settle(req, fn, recv,
                      Return(ToolResponse([by |-> "readEnvVariable", key |-> key,
                                           value |-> "set", from |-> "memory"], FALSE)))
             ELSE Await(req, fn, recv, "readFile")
      ELSE IF ToLowerCase(action) = "write"
        THEN IF ~Printable(key) \/ ~Printable(value)
               THEN Settle(req, fn, recv, Failed(fn, recv))
             ELSE Await(req, fn, recv, "readFile")
      ELSE IF ToLowerCase(action) = "list" THEN Await(req, fn, recv, "readFile")
      ELSE Settle(req, fn, recv, Failed(fn, recv))

\* executeCommand up to its await of the child process
executeCommandStart(req, recv) ==
  LET fn      == "executeCommand"
      command == recv[1]
  IN  IF ~Printable(command) THEN Settle(req, fn, recv, Throw(TypeError(fn)))
      ELSE IF command = Undef THEN Settle(req, fn, recv, Failed(fn, recv))
      ELSE Await(req, fn, recv, "exec")

\* The request handler up to the first await of the function it calls
Started(req) ==
  IF req.cat = "tool"
    THEN IF MissingArguments(req)
           THEN Settle(req, "none", <<>>, Throw(Error("Missing arguments", <<>>)))
         ELSE LET m == ToolCasesMatching(req.name)
              IN  IF m = {}
                    THEN Settle(req, "none", <<>>, Throw(Error("Unknown tool: ", req.name)))
                  ELSE LET c    == ToolCases[Min(m)]
                           recv == Extract(c.keys, req.args)
                       IN  CASE c.fn = "environmentManager" ->
                                  environmentManagerStart(req, recv)
                             [] c.fn = "executeCommand" ->
                                  executeCommandStart(req, recv)
  ELSE LET m == ResourceBranchesMatching(req.name)
       IN  IF m = {}
             THEN Settle(req, "none", <<>>, Throw(Error("Unknown resource: ", req.name)))
           ELSE CASE ResourceBranches[Min(m)] = "getConfig" ->
                       Await(req, "getConfig", <<>>, "readFile")

\* The schema a request is delivered under
SchemaOf(req) == IF req.cat = "tool" THEN "CallTool" ELSE "ReadResource"

\* The server is up: every handler registered, the transport connected
AsyncInit ==
  /\ pc = Len(Registrations) + 2
  /\ requestHandlers = Range(Registrations)
  /\ connected = TRUE
  /\ last = NoRequest
  /\ streak = 0
  /\ streakCalls = 0
  /\ tasks = [s \in Slots |-> IdleTask]
  /\ envFile \in InitialEnvFiles
  /\ envAtStart = envFile
  /\ EnvIdle
  /\ DbIdle

\* A request arrives and its handler runs up to its first await
Begin(s) ==
  /\ tasks[s].at \in {"idle", "responded"}
  /\ \E req \in AsyncRequests :
        /\ Delivered(SchemaOf(req))
        /\ tasks' = [tasks EXCEPT ![s] = Started(req)]
  /\ UNCHANGED <<pc, requestHandlers, connected, last, streak, streakCalls,
                 envFile, envAtStart, envVars, dbVars>>

\* The task of slot s moves on
Resume(s, task) ==
  /\ tasks' = [tasks EXCEPT ![s] = task]
  /\ UNCHANGED <<pc, requestHandlers, connected, last, streak, streakCalls, envAtStart, envVars, dbVars>>

\* await readFile(".env", "utf-8") completes
ReadFileDone(s) ==
  LET t == tasks[s]
  IN  /\ t.at = "readFile"
      /\ UNCHANGED envFile
      /\ IF t.fn = "getConfig"
           THEN Resume(s, [t EXCEPT !.at = "readRest", !.seen = envFile])
         ELSE IF ToLowerCase(t.recv[1]) = "write"
           THEN Resume(s, [t EXCEPT !.at = "writeFile", !.seen = envFile])
         ELSE IF ToLowerCase(t.recv[1]) = "read"
           THEN Resume(s, [t EXCEPT !.at = "settled", !.seen = envFile,
                                    !.outcome = readEnvVariable(t.recv[2], envFile)])
         ELSE Resume(s, [t EXCEPT !.at = "settled", !.seen = envFile,
                                  !.outcome = Return(ToolResponse(
                                     [by |-> "listEnvVariables", env |-> envFile], FALSE))])

\* await writeFile(envPath, lines.join("\n"), "utf-8") completes: the file
\* is replaced, or writeFile fails and the error is caught by environmentManager
WriteFileDone(s) ==
  LET t == tasks[s]
  IN  /\ t.at = "writeFile"
      /\ \/ /\ envFile' = writeEnvVariable(t.recv[2], t.recv[3], t.seen)
            /\ Resume(s, [t EXCEPT !.at = "settled",
                                   !.outcome = Written(t.recv[2], t.recv[3])])
         \/ /\ UNCHANGED envFile
            /\ Resume(s, [t EXCEPT !.at = "settled", !.outcome = Failed(t.fn, t.recv)])

\* await execAsync(command) completes, with or without an error
ExecDone(s) ==
  LET t == tasks[s]
  IN  /\ t.at = "exec"
      /\ UNCHANGED envFile
      /\ \E oc \in { Done(t.fn, t.recv), Failed(t.fn, t.recv) } :
            Resume(s, [t EXCEPT !.at = "settled", !.outcome = oc])

\* getConfig has read package.json, tsconfig.json and .git/config as well
ReadRestDone(s) ==
  LET t == tasks[s]
  IN  /\ t.at = "readRest"
      /\ UNCHANGED envFile
      /\ Resume(s, [t EXCEPT !.at = "settled", !.outcome = getConfigResult(t.seen)])

\* Respond that gives up on a child process that has not finished
RespondOnDeadline(s) ==
  LET t == tasks[s]
  IN  /\ t.at \in {"settled", "exec"}
      /\ UNCHANGED envFile
      /\ Resume(s, [t EXCEPT !.at = "responded",
                             !.response = IF t.at = "exec"
                                            THEN Rejected(Error("Timed out", <<>>))
                                          ELSE IF t.req.cat = "tool"
                                            THEN ToolSettled(t.outcome)
                                          ELSE Settled(t.outcome)])

\* The awaited function has settled and the request handler responds
Respond(s) ==
  LET t == tasks[s]
  IN  /\ t.at = "settled"
      /\ UNCHANGED envFile
      /\ Resume(s, [t EXCEPT !.at = "responded",
                             !.response = IF t.req.cat = "tool" THEN ToolSettled(t.outcome)
                                          ELSE Settled(t.outcome)])

\* What a task awaits completes
Complete(s) == ReadFileDone(s) \/ WriteFileDone(s) \/ ExecDone(s) \/ ReadRestDone(s)

AsyncNext ==
  \E s \in Slots :
     \/ Begin(s)
     \/ ReadFileDone(s)
     \/ WriteFileDone(s)
     \/ ExecDone(s)
     \/ ReadRestDone(s)
     \/ Respond(s)

AsyncSpec == AsyncInit /\ [][AsyncNext]_vars

\* Every file operation and every child process completes in the end, and
\* the event loop runs the continuation of what has settled
AsyncFairSpec ==
  /\ AsyncSpec
  /\ \A s \in Slots : WF_vars(Complete(s)) /\ WF_vars(Respond(s))

(***************************************************************************)
(* Calls of environment_manager that run one after the other, on the text  *)
(* of .env                                                                 *)
(***************************************************************************)
MaxWrites == 2

\* The keys a caller reads and writes: plain, with "=" inside, a hardcoded
\* secret, a variable of the process, a variable of the process set to "",
\* and a name every object inherits
TextKeys == { <<"A">>, <<"A", "=", "B">>, JWT_SECRET, PATH, EMPTY_VAR, constructor }

\* The values a caller writes: with "=" inside, with a leading blank, and
\* with a newline inside
TextValues == { <<"B", "=", "q">>, <<" ", "w">>, <<"x", NL, "A", "=", "y">> }

\* The .env files the server may find: none, and one with two lines for A
InitialTexts == { NoText, Text(<<"A", "=", "1", NL, "A", "=", "2">>) }

\* The number of lines of the file that start with key=
CountOf(key, file) ==
  Cardinality({ i \in DOMAIN Split(file.text) :
                  file.exists /\ StartsWith(Split(file.text)[i], key \o <<"=">>) })

EnvInit ==
  /\ pc = Len(Registrations) + 2
  /\ requestHandlers = Range(Registrations)
  /\ connected = TRUE
  /\ last = NoRequest
  /\ streak = 0
  /\ streakCalls = 0
  /\ tasks = [s \in Slots |-> IdleTask]
  /\ envFile = NoFile
  /\ envAtStart = NoFile
  /\ dotenv \in InitialTexts
  /\ envOp = NoOp
  /\ envWrites = <<>>
  /\ envCounts = NoCounts
  /\ DbIdle

\* environment_manager with action "read" runs to its end
EnvironmentRead ==
  /\ Delivered("CallTool")
  /\ \E key \in TextKeys :
        envOp' = [op |-> "read", key |-> key, value |-> <<>>, before |-> dotenv,
                  result |-> readEnvVariableText(key, dotenv)]
  /\ UNCHANGED <<pc, requestHandlers, connected, last, streak, streakCalls,
                 tasks, envFile, envAtStart, dotenv, envWrites, envCounts, dbVars>>

\* environment_manager with action "write" runs to its end: writeFile
\* replaces the file, or it fails and environmentManager reports the error
EnvironmentWrite ==
  /\ Delivered("CallTool")
  /\ Len(envWrites) < MaxWrites
  /\ \E key \in TextKeys, value \in TextValues :
        \/ /\ dotenv' = writeEnvVariableText(key, value, dotenv)
           /\ envOp' = [op |-> "write", key |-> key, value |-> value, before |-> dotenv,
                        result |-> Written(key, value)]
           /\ envWrites' = Append(envWrites, [key |-> key, value |-> value])
           /\ envCounts' = IF key \in DOMAIN envCounts THEN envCounts
                           ELSE envCounts @@ (key :> CountOf(key, dotenv))
        \/ /\ envOp' = [op |-> "write", key |-> key, value |-> value, before |-> dotenv,
                        result |-> Failed("environmentManager", <<"write", key, value>>)]
           /\ UNCHANGED <<dotenv, envWrites, envCounts>>
  /\ UNCHANGED <<pc, requestHandlers, connected, last, streak, streakCalls,
                 tasks, envFile, envAtStart, dbVars>>

EnvNext == EnvironmentRead \/ EnvironmentWrite

EnvSpec == EnvInit /\ [][EnvNext]_vars

(***************************************************************************)
(* database_tools: every call opens a handle of its own on                 *)
(* ./dev-database.db and awaits its statements one by one; calls in        *)
(* flight interleave at these awaits.  A statement can fail whatever the   *)
(* state of the table (the file is locked or cannot be opened).            *)
(***************************************************************************)
SelectUsers == "SELECT * FROM users"

DeleteUsers == "DELETE FROM users"

\* A query SQLite cannot parse
Malformed == "SELEC"

\* The demo rows initializeDemoDatabase inserts: admin, john_doe, jane_smith
DemoRows == 3

\* The calls followed: queries that insert no rows, on sqlite by name and
\* by default, and one on another database type
DbRequests ==
  { [query |-> SelectUsers, database |-> "sqlite"],
    [query |-> DeleteUsers, database |-> Undef],
    [query |-> Malformed, database |-> "sqlite"],
    [query |-> Undef, database |-> "sqlite"],
    [query |-> SelectUsers, database |-> "postgres"] }

\* The databases the server may find: a fresh one, and a seeded one
InitialUsers == { NoTable, [exists |-> TRUE, rows |-> DemoRows] }

\* const dbType = database || "sqlite"
DbType(database) == IF database \in {Undef, ""} THEN "sqlite" ELSE database

\* query.trim().toUpperCase().startsWith("SELECT")
IsSelect(query) == query = SelectUsers

\* A call with its handle open, awaiting a statement
Awaiting(call, at) == [call EXCEPT !.at = at, !.handle = "open"]

\* executeSQLite that closes the handle only when the query succeeded
FinallyOnSuccess(call, oc) ==
  [call EXCEPT !.at = "returned", !.outcome = oc,
               !.handle = IF oc.payload.isError THEN "open" ELSE "closed"]

\* finally { db.close() } of executeSQLite, then the return of databaseTools:
\* the result of the query, or the result of its catch block
Finally(call, oc) == [call EXCEPT !.at = "returned", !.outcome = oc, !.handle = "closed"]

\* The handles open once a call has gone from what it was to what it is:
\* new sqlite3.Database(...) opens one, db.close() closes one
OpenAfter(was, is) ==
  dbOpen + (IF is.handle = "open" /\ was.handle # "open" THEN 1 ELSE 0)
         - (IF is.handle = "closed" /\ was.handle = "open" THEN 1 ELSE 0)

\* The call of slot s goes from what it was to c
DbResume(s, was, c) ==
  /\ dbTasks' = [dbTasks EXCEPT ![s] = c]
  /\ dbOpen' = OpenAfter(was, c)
  /\ UNCHANGED <<pc, requestHandlers, connected, last, streak, streakCalls,
                 tasks, envFile, envAtStart, envVars>>

\* initializeDemoDatabase has ended, by its last statement or by its catch
\* block: query.trim() throws on a missing query, else the query is awaited
AfterInitialize(call) ==
  IF call.query = Undef
    THEN Finally(call, Failed("databaseTools", <<call.query, call.database>>))
  ELSE Awaiting(call, "query")

DbInit ==
  /\ pc = Len(Registrations) + 2
  /\ requestHandlers = Range(Registrations)
  /\ connected = TRUE
  /\ last = NoRequest
  /\ streak = 0
  /\ streakCalls = 0
  /\ tasks = [s \in Slots |-> IdleTask]
  /\ envFile = NoFile
  /\ envAtStart = NoFile
  /\ EnvIdle
  /\ dbTasks = [s \in Slots |-> IdleCall]
  /\ users \in InitialUsers
  /\ dbOpen = 0

\* databaseTools is called: for sqlite it opens a handle and awaits CREATE
\* TABLE IF NOT EXISTS; for another type it returns a message at once
DatabaseTools(s) ==
  /\ Delivered("CallTool")
  /\ dbTasks[s].at \in {"idle", "returned"}
  /\ UNCHANGED users
  /\ \E req \in DbRequests :
        LET call == [IdleCall EXCEPT !.query = req.query, !.database = req.database]
        IN  IF DbType(req.database) = "sqlite"
              THEN DbResume(s, IdleCall, Awaiting(call, "create"))
            ELSE DbResume(s, IdleCall, [call EXCEPT !.at = "returned",
                                          !.outcome = Done("databaseTools",
                                                           <<req.query, req.database>>)])

\* await dbRun(CREATE TABLE IF NOT EXISTS users ...) completes; a failure
\* ends initializeDemoDatabase in its catch block
CreateDone(s) ==
  LET c == dbTasks[s]
  IN  /\ c.at = "create"
      /\ \/ /\ users' = IF users.exists THEN users ELSE [exists |-> TRUE, rows |-> 0]
            /\ DbResume(s, c, Awaiting(c, "count"))
         \/ /\ UNCHANGED users
            /\ DbResume(s, c, AfterInitialize(c))

\* await dbGet("SELECT COUNT(*) as count FROM users") completes: on count 0
\* the INSERT is awaited next
CountDone(s) ==
  LET c == dbTasks[s]
  IN  /\ c.at = "count"
      /\ UNCHANGED users
      /\ \/ /\ users.exists
            /\ IF users.rows = 0 THEN DbResume(s, c, Awaiting(c, "insert"))
               ELSE DbResume(s, c, AfterInitialize(c))
         \/ DbResume(s, c, AfterInitialize(c))

\* await dbRun(INSERT INTO users ... three rows) completes
InsertDone(s) ==
  LET c == dbTasks[s]
  IN  /\ c.at = "insert"
      /\ \/ /\ users.exists
            /\ users' = [users EXCEPT !.rows = @ + DemoRows]
            /\ DbResume(s, c, AfterInitialize(c))
         \/ /\ UNCHANGED users
            /\ DbResume(s, c, AfterInitialize(c))

\* await dbAll(query) or await dbRun(query) completes, the handle is closed
\* and databaseTools returns
QueryDone(s) ==
  LET c    == dbTasks[s]
      recv == <<c.query, c.database>>
  IN  /\ c.at = "query"
      /\ \/ /\ users.exists
            /\ c.query # Malformed
            /\ users' = IF IsSelect(c.query) THEN users ELSE [users EXCEPT !.rows = 0]
            /\ DbResume(s, c, Finally(c, Done("databaseTools", recv)))
         \/ /\ UNCHANGED users
            /\ DbResume(s, c, Finally(c, Failed("databaseTools", recv)))

DbNext ==
  \E s \in Slots :
     \/ DatabaseTools(s)
     \/ CreateDone(s)
     \/ CountDone(s)
     \/ InsertDone(s)
     \/ QueryDone(s)

DbSpec == DbInit /\ [][DbNext]_vars

(***************************************************************************)
(* Vocabulary of the properties                                            *)
(***************************************************************************)
\* A dispatching request (tool call, resource read, prompt fetch) has been
\* served
Served == last.req.cat \in {"tool", "resource", "prompt"}

\* The rows of the category's switch table that carry the requested name
CaseOf(req) ==
  LET cases == IF req.cat = "tool" THEN ToolCases
               ELSE IF req.cat = "prompt" THEN PromptCases ELSE <<>>
  IN  { cases[i] : i \in { j \in DOMAIN cases : cases[j].label = req.name } }

\* The function that serves a resource URI: the three exact URIs and every
\* URI under project://files/
ResourceHandlerFor(uri) ==
  IF uri = GitStatusUri THEN {"getGitStatus"}
  ELSE IF uri = ConfigUri THEN {"getConfig"}
  ELSE IF uri = LogsUri THEN {"getLogs"}
  ELSE IF Len(uri) >= Len(FilesPrefix) /\ \A i \in DOMAIN FilesPrefix : uri[i] = FilesPrefix[i]
    THEN {"getProjectFiles"}
  ELSE {}

\* The functions registered for the request's (category, name)
HandlersFor(req) ==
  IF req.cat = "resource" THEN ResourceHandlerFor(req.name)
  ELSE { c.fn : c \in CaseOf(req) }

Registered(req) == HandlersFor(req) # {}

\* The mapping a function received: its parameters that are not undefined,
\* under the keys they were read from
Received(keys, recv) ==
  LET at == { i \in DOMAIN keys : recv[i] # Undef }
  IN  [k \in { keys[i] : i \in at } |-> recv[CHOOSE i \in at : keys[i] = k]]

\* The bag P without the keys outside K
Restrict(P, K) == [k \in DOMAIN P \cap K |-> P[k]]

\* What the function called for the latest request returned reached the caller as is
ReturnedUnchanged ==
  \A i \in DOMAIN last.calls :
     last.calls[i].outcome.kind = "return"
       => last.response = Result(last.calls[i].outcome.payload)

\* The error the dispatcher itself raised for the latest request, if any
DispatcherErrors ==
  IF last.calls # <<>> THEN {}
  ELSE IF last.response.kind = "error" THEN { last.response.error }
  ELSE IF last.response.kind = "result" /\ last.req.cat = "tool"
    THEN LET t == last.response.payload.content[1].text
         IN  IF "fmt" \in DOMAIN t
               THEN { [name |-> t.error[1], message |-> t.error[2], stack |-> t.stack] }
             ELSE {}
  ELSE {}

UnknownNameError ==
  \E e \in DispatcherErrors :
     /\ e.message.prefix =
          (IF last.req.cat = "tool" THEN "Unknown tool: "
           ELSE IF last.req.cat = "resource" THEN "Unknown resource: "
           ELSE "Unknown prompt: ")
     /\ e.message.detail = last.req.name

MissingArgumentsError ==
  \E e \in DispatcherErrors : e.message.prefix = "Missing arguments"

\* The caller can tell the response is a failure: the request was rejected,
\* or the tool result carries isError
IsFailure(resp) ==
  \/ resp.kind = "error"
  \/ resp.kind = "result" /\ last.req.cat = "tool" /\ resp.payload.isError

(***************************************************************************)
(* Properties                                                              *)
(***************************************************************************)
\* A tool call or prompt fetch of a registered name that carries a bag
RegisteredWithBag ==
  /\ Served
  /\ last.req.cat \in {"tool", "prompt"}
  /\ last.req.hasArgs
  /\ Registered(last.req)

\* C1 as stated: a dispatch of a registered name with parameters P calls
\* exactly the registered function, exactly once, with exactly P, and the
\* caller receives exactly what the function returned.
C1_DispatchExactlyP ==
  /\ RegisteredWithBag =>
       /\ Len(last.calls) = 1
       /\ \A c \in CaseOf(last.req) :
            /\ last.calls[1].fn = c.fn
            /\ Received(c.keys, last.calls[1].recv) = last.req.args
       /\ ReturnedUnchanged
  /\ (Served /\ last.req.cat = "resource" /\ Registered(last.req)) =>
       /\ Len(last.calls) = 1
       /\ last.calls[1].fn \in HandlersFor(last.req)
       /\ ReturnedUnchanged

\* C1 (amended): a dispatch of a registered name with a parameter bag P
\* calls exactly the registered function, exactly once, with the values P
\* holds under the keys that function's case reads (every other key of P
\* is dropped), and when the function returns, the caller receives exactly
\* what it returned.
C1_DispatchCorrect ==
  /\ RegisteredWithBag =>
       /\ Len(last.calls) = 1
       /\ \A c \in CaseOf(last.req) :
            /\ last.calls[1].fn = c.fn
            /\ Received(c.keys, last.calls[1].recv) = Restrict(last.req.args, Range(c.keys))
       /\ ReturnedUnchanged
  /\ (Served /\ last.req.cat = "resource" /\ Registered(last.req)) =>
       /\ Len(last.calls) = 1
       /\ last.calls[1].fn \in HandlersFor(last.req)
       /\ ReturnedUnchanged

\* A registered tool was called with a bag that has a key its case does not
\* read, and the tool function returned a failure of its own
C1_Witness ==
  /\ RegisteredWithBag
  /\ last.req.cat = "tool"
  /\ ExtraKey \in DOMAIN last.req.args
  /\ Len(last.calls) = 1
  /\ last.calls[1].outcome.kind = "return"
  /\ last.calls[1].outcome.payload.isError

\* C2 as stated: a dispatch of a name with no registered handler fails with
\* the unknown-operation error, the caller gets a failure and not a success
\* result, and no function is called; in all three categories.  The dispatch
\* carries a parameter bag, as in C1.
C2_UnknownOperationFails ==
  (Served /\ last.req.hasArgs /\ ~Registered(last.req)) =>
     /\ last.calls = <<>>
     /\ UnknownNameError
     /\ IsFailure(last.response)

\* C3 as stated: when the called function fails with error E, the caller
\* receives a failure that carries E unchanged, never a success-shaped result.
C3_PassThroughFidelity ==
  \A i \in DOMAIN last.calls :
     LET oc == last.calls[i].outcome
     IN  /\ oc.kind = "throw" =>
              /\ IsFailure(last.response)
              /\ \/ last.response = Rejected(oc.error)
                 \/ /\ last.response.kind = "result"
                    /\ DispatcherErrors = {}
                    /\ LET t == last.response.payload.content[1].text
                       IN  t.error = <<oc.error.name, oc.error.message>> /\ t.stack = oc.error.stack
         /\ (oc.kind = "return" /\ last.req.cat = "tool" /\ oc.payload.isError) =>
              last.response = Result(oc.payload)

\* The switch cases or chain branches whose test holds of the requested name
Matching(req) ==
  IF req.cat = "tool" THEN ToolCasesMatching(req.name)
  ELSE IF req.cat = "prompt" THEN PromptCasesMatching(req.name)
  ELSE ResourceBranchesMatching(req.name)

\* How many of the given conditions hold
Count(conds) == Cardinality({ i \in DOMAIN conds : conds[i] })

\* C5 as stated: every request is routed to exactly one function or to the
\* unknown-name error, never to two and never to none, and at most one
\* switch case or routing branch applies to any name or URI.
C5_OneRoutePerRequest ==
  Served =>
    /\ Cardinality(Matching(last.req)) <= 1
    /\ Len(last.calls) + Count(<<UnknownNameError>>) = 1

\* C5 (amended): every request is routed to exactly one function, or to the
\* unknown-name error, or - a tool call without arguments, and only that -
\* to the missing-arguments error; never to two of these and never to none;
\* at most one switch case or routing branch applies to any name or URI.
C5_RoutingDeterminism ==
  Served =>
    /\ Cardinality(Matching(last.req)) <= 1
    /\ Len(last.calls) + Count(<<UnknownNameError, MissingArgumentsError>>) = 1
    /\ MissingArgumentsError <=> (last.req.cat = "tool" /\ ~last.req.hasArgs)

\* A URI under project://files/ whose path repeats the prefix was read
C5_Witness ==
  /\ Served
  /\ last.req.cat = "resource"
  /\ last.req.name = FilesPrefix \o FilesPrefix \o <<"a">>
  /\ Len(last.calls) = 1

\* C6: a dispatch in one category never calls a function of another
\* category, also when the requested name is a registered name there.
C6_NoCrossTalk ==
  Served => \A i \in DOMAIN last.calls : HandlerCategory(last.calls[i].fn) = last.req.cat

\* A prompt fetch asked for the name of a registered tool
C6_Witness ==
  /\ Served
  /\ last.req.cat = "prompt"
  /\ last.req.hasArgs
  /\ last.req.name \in ToolNames

C8_TableFixedAfterStartup ==
  /\ [](connected => requestHandlers = Range(Registrations))
  /\ [][ /\ requestHandlers \subseteq requestHandlers'
         /\ connected => (connected' /\ requestHandlers' = requestHandlers) ]_vars

\* A dispatch failed after the server connected
C8_Witness ==
  /\ connected
  /\ Served
  /\ last.response.kind = "error"

\* C9 as stated: the function receives the caller's mapping unchanged, no
\* key dropped, added, renamed or coerced.
C9_BagVerbatim ==
  (Served /\ last.req.cat \in {"tool", "prompt"} /\ Len(last.calls) = 1) =>
     \A c \in CaseOf(last.req) : Received(c.keys, last.calls[1].recv) = last.req.args

\* C9 (amended): the function receives, for each key its case reads, the
\* caller's value under that key unchanged (undefined when the caller gave
\* none); the keys its case does not read are dropped; none is added,
\* renamed or coerced.
C9_BagProjected ==
  (Served /\ last.req.cat \in {"tool", "prompt"} /\ Len(last.calls) = 1) =>
     \A c \in CaseOf(last.req) :
        /\ Len(last.calls[1].recv) = Len(c.keys)
        /\ \A i \in DOMAIN c.keys : last.calls[1].recv[i] = Get(last.req.args, c.keys[i])
        /\ DOMAIN Received(c.keys, last.calls[1].recv) = DOMAIN last.req.args \cap Range(c.keys)

\* A registered tool was called with a bag that lacks a key its case reads
\* and has a key it does not read
C9_Witness ==
  /\ Served
  /\ last.req.cat = "tool"
  /\ last.req.hasArgs
  /\ Len(last.calls) = 1
  /\ ExtraKey \in DOMAIN last.req.args
  /\ \E c \in CaseOf(last.req) : ~(Range(c.keys) \subseteq DOMAIN last.req.args)

\* C10 as stated: for every registered tool name and every value of the
\* parameter bag, an absent or empty one included, the dispatcher calls the
\* function; only the function rejects a request because of its params.
C10_NoDispatcherValidation ==
  (Served /\ last.req.cat = "tool" /\ Registered(last.req)) =>
     /\ Len(last.calls) = 1
     /\ DispatcherErrors = {}

\* C10 (amended): for every registered tool name and every parameter bag
\* that is present, an empty one included, the dispatcher calls the
\* function; the dispatcher itself rejects exactly the calls whose
\* arguments are absent, with the missing-arguments error and without
\* calling the function.
C10_OnlyAbsentArgumentsRejected ==
  (Served /\ last.req.cat = "tool" /\ Registered(last.req)) =>
     /\ last.req.hasArgs => (Len(last.calls) = 1 /\ DispatcherErrors = {})
     /\ ~last.req.hasArgs => (last.calls = <<>> /\ MissingArgumentsError)

\* A registered tool was called with an empty bag
C10_Witness ==
  /\ Served
  /\ last.req.cat = "tool"
  /\ Registered(last.req)
  /\ last.req.hasArgs
  /\ last.req.args = EmptyBag
  /\ Len(last.calls) = 1

\* C11 as stated: for every unregistered name requested in a category, what
\* the caller is given names the category and contains the name exactly as
\* it was requested.
C11_UnknownNamesCategoryAndName ==
  (Served /\ ~Registered(last.req)) => UnknownNameError

\* C11 (amended): for every unregistered name requested in a category - for
\* a tool, in a call that carries arguments - the caller is given the
\* message "Unknown <category>: <name>" with the name exactly as requested;
\* a tool call without arguments is given "Missing arguments", which names
\* neither.
C11_UnknownNamedUnlessArgumentsMissing ==
  (Served /\ ~Registered(last.req)) =>
     IF last.req.cat = "tool" /\ ~last.req.hasArgs
       THEN MissingArgumentsError /\ ~UnknownNameError
     ELSE UnknownNameError

\* An unknown tool was called with a bag that has a key
C11_Witness ==
  /\ Served
  /\ last.req.cat = "tool"
  /\ last.req.name = delete_all
  /\ last.req.hasArgs
  /\ ExtraKey \in DOMAIN last.req.args
  /\ last.calls = <<>>

\* The latest dispatch failed: the request was rejected, the request handler
\* raised an error itself, or the function it called threw or returned a
\* failure of its own
FailingDispatch ==
  /\ Served
  /\ \/ last.response.kind = "error"
     \/ DispatcherErrors # {}
     \/ \E i \in DOMAIN last.calls :
           LET oc == last.calls[i].outcome
           IN  \/ oc.kind = "throw"
               \/ oc.kind = "return" /\ last.req.cat = "tool" /\ oc.payload.isError

\* The errors that reached the catch block of the tool-call handler
CaughtErrors ==
  IF last.req.cat # "tool" THEN {}
  ELSE DispatcherErrors \cup
       { last.calls[i].outcome.error :
           i \in { j \in DOMAIN last.calls : last.calls[j].outcome.kind = "throw" } }

\* C12 as stated: on a failing dispatch the function has been called at most
\* once (no retry) and the request handler itself has logged nothing.
C12_FailuresNeitherRetriedNorLogged ==
  FailingDispatch =>
     /\ Len(last.calls) <= 1
     /\ last.log = <<>>

\* C12 (amended): on a failing dispatch the function has been called at
\* most once (no retry), and the request handler logs exactly the errors
\* that reach the catch block of the tool-call handler (missing arguments,
\* unknown tool, an error thrown by the tool function), one entry each; it
\* logs nothing for a failure the tool function returned and nothing for
\* resources and prompts.
C12_OnlyCaughtToolErrorsLogged ==
  FailingDispatch =>
     /\ Len(last.calls) <= 1
     /\ Len(last.log) = Cardinality(CaughtErrors)
     /\ \A i \in DOMAIN last.log :
           /\ last.log[i].label = "Tool execution error:"
           /\ last.log[i].error \in CaughtErrors

\* A tool function threw and the catch block logged its error
C12_Witness ==
  /\ Served
  /\ last.req.cat = "tool"
  /\ Len(last.calls) = 1
  /\ last.calls[1].outcome.kind = "throw"
  /\ Len(last.log) = 1

\* C19: reading project://files/P calls getProjectFiles with P, the URI
\* without its leading prefix and otherwise unaltered, and whether the read
\* succeeds or fails the caller gets exactly one contents item whose uri is
\* the requested URI.
C19_ProjectFilePath ==
  (Served /\ last.req.cat = "resource"
          /\ ResourceHandlerFor(last.req.name) = {"getProjectFiles"}) =>
     /\ Len(last.calls) = 1
     /\ last.calls[1].fn = "getProjectFiles"
     /\ Len(last.calls[1].recv) = 1
     /\ FilesPrefix \o last.calls[1].recv[1] = last.req.name
     /\ last.response.kind = "result"
     /\ Len(last.response.payload.contents) = 1
     /\ last.response.payload.contents[1].uri = last.req.name

\* The file under a path that repeats the prefix was asked for and the read
\* failed
C19_Witness ==
  /\ Served
  /\ last.req.cat = "resource"
  /\ last.req.name = FilesPrefix \o FilesPrefix \o <<"a">>
  /\ Len(last.calls) = 1
  /\ last.response.kind = "result"
  /\ last.response.payload.contents[1].text.path = "failed"

\* C20: the tool-call request handler never rejects: for every tool name
\* and every arguments value (absent, unknown name, a tool function that
\* throws or returns a failure) the caller gets a result whose content is
\* exactly one text item.
C20_ToolCallNeverRejects ==
  (Served /\ last.req.cat = "tool") =>
     /\ last.response.kind = "result"
     /\ Len(last.response.payload.content) = 1
     /\ last.response.payload.content[1].type = "text"

\* A registered tool was called and its function threw
C20_Witness ==
  /\ Served
  /\ last.req.cat = "tool"
  /\ Registered(last.req)
  /\ \E i \in DOMAIN last.calls : last.calls[i].outcome.kind = "throw"
  /\ last.response.kind = "result"

\* The names the latest listing advertised, under the given field
Listed(field, key) ==
  LET l == last.response.payload[field] IN { l[i][key] : i \in DOMAIN l }

\* The names each listing handler advertises for a category
Advertised(cat) ==
  LET of(runs, field, key) ==
        UNION { { r.response.payload[field][i][key]
                  : i \in DOMAIN r.response.payload[field] } : r \in runs }
  IN  IF cat = "tool" THEN of(ListToolsRequestHandler, "tools", "name")
      ELSE IF cat = "prompt" THEN of(ListPromptsRequestHandler, "prompts", "name")
      ELSE of(ListResourcesRequestHandler, "resources", "uri")

\* C13: the tools list names exactly the 8 names the tool switch handles,
\* the prompts list exactly the 3 names the prompt switch handles, each of
\* the 4 listed resource URIs is accepted by the resource routing; a
\* dispatch of an advertised name never ends in the unknown-name error and
\* no name that reaches a tool or prompt function is unadvertised.
C13_AdvertisedIsDispatchable ==
  /\ last.req.cat = "tools/list" =>
       /\ Listed("tools", "name") = { ToolCases[i].label : i \in DOMAIN ToolCases }
       /\ Len(last.response.payload.tools) = 8
       /\ Cardinality(Listed("tools", "name")) = 8
  /\ last.req.cat = "prompts/list" =>
       /\ Listed("prompts", "name") = { PromptCases[i].label : i \in DOMAIN PromptCases }
       /\ Len(last.response.payload.prompts) = 3
       /\ Cardinality(Listed("prompts", "name")) = 3
  /\ last.req.cat = "resources/list" =>
       /\ \A u \in Listed("resources", "uri") : ResourceHandlerFor(u) # {}
       /\ Cardinality(Listed("resources", "uri")) = 4
  /\ (Served /\ last.req.name \in Advertised(last.req.cat)) =>
       /\ ~UnknownNameError
       /\ (last.req.cat = "tool" => last.req.hasArgs) => Len(last.calls) = 1
  /\ (Served /\ last.req.cat \in {"tool", "prompt"} /\ last.calls # <<>>) =>
       last.req.name \in Advertised(last.req.cat)

\* The URI template of the resources list was read as it is advertised
C13_Witness ==
  /\ Served
  /\ last.req.cat = "resource"
  /\ last.req.name = FilesPrefix \o PathTemplate
  /\ Len(last.calls) = 1
  /\ last.calls[1].recv = << PathTemplate >>

\* The runs the request handler of the request's category can have
RunsOf(req) ==
  IF req.cat = "tool" THEN CallToolRequestHandler(req)
  ELSE IF req.cat = "resource" THEN ReadResourceRequestHandler(req)
  ELSE GetPromptRequestHandler(req)

\* C17: whoever the caller is, the outcome of a dispatch is one that the
\* request alone allows, and a dispatch of a registered name reaches the
\* registered function: no caller is refused, and the routing decision is
\* the same for every caller.
C17_NoAuthorization ==
  \A who \in Callers :
     (Served /\ last.caller = who) =>
        /\ [calls |-> last.calls, response |-> last.response, log |-> last.log]
             \in RunsOf(last.req)
        /\ (Registered(last.req) /\ (last.req.cat = "tool" => last.req.hasArgs)) =>
              /\ Len(last.calls) = 1
              /\ last.calls[1].fn \in HandlersFor(last.req)
        /\ ~Registered(last.req) => last.calls = <<>>

\* The stranger repeated a request for a registered tool and the tool
\* function was called
C17_Witness ==
  /\ Served
  /\ last.caller = "stranger"
  /\ last.req.cat = "tool"
  /\ Registered(last.req)
  /\ streak >= 2
  /\ Len(last.calls) = 1
  /\ last.calls[1].outcome.kind = "return"

\* The entries of the tools list whose schema restricts a property to an enum
EnumTools ==
  UNION { { r.response.payload.tools[i] : i \in DOMAIN r.response.payload.tools }
          : r \in ListToolsRequestHandler }

\* The latest request called a tool with a string outside its schema's
\* enum, every other argument it gave being a string too
OutsideEnum ==
  /\ Served
  /\ last.req.cat = "tool"
  /\ last.req.hasArgs
  /\ \A k \in DOMAIN last.req.args : Printable(last.req.args[k])
  /\ \E t \in EnumTools :
        /\ t.name = last.req.name
        /\ t.enumKey \in DOMAIN last.req.args
        /\ last.req.args[t.enumKey] \notin t.enum

\* C18 as stated: a call of file_operations, dependency_manager or
\* environment_manager whose action value is outside the advertised enum
\* returns an error result with isError true and performs no file write
\* and no shell command.
C18_EnumEnforced ==
  OutsideEnum =>
     /\ last.response.kind = "result"
     /\ last.response.payload.isError
     /\ \A i \in DOMAIN last.calls :
           Effects(last.calls[i].fn, last.calls[i].recv) \cap {"writeFile", "exec"} = {}

\* The task of slot s has answered its request
Responded(s) == tasks[s].at = "responded"

\* The task of slot s is an environment_manager write that reported success
WriteSucceeded(s) ==
  /\ Responded(s)
  /\ tasks[s].fn = "environmentManager"
  /\ tasks[s].response = Result(Written(tasks[s].recv[2], tasks[s].recv[3]).payload)

\* .env has a line for the key
InEnv(key) == envFile.exists /\ \E i \in DOMAIN envFile.lines : envFile.lines[i].key = key

\* In this step writeFile completed for the write of slot s
WroteEnv(s) ==
  /\ tasks[s].at = "writeFile"
  /\ tasks'[s].at = "settled"
  /\ tasks'[s].outcome = Written(tasks[s].recv[2], tasks[s].recv[3])

\* C14: requests in flight do not exclude one another: a free slot takes up
\* a request and every await completes whatever the other requests are at;
\* and a completed environment_manager write replaces .env by the lines
\* that writer read earlier with its one line set or appended, whatever has
\* been written to the file since - so of two concurrent writes of
\* distinct keys that both report success one can be lost.
C14_NoMutualExclusion ==
  /\ [](\A s \in Slots :
          /\ tasks[s].at \in {"idle", "responded"} => ENABLED Begin(s)
          /\ tasks[s].at = "readFile" => ENABLED ReadFileDone(s)
          /\ tasks[s].at = "writeFile" => ENABLED WriteFileDone(s))
  /\ [][\A s \in Slots :
          WroteEnv(s) =>
             LET key == tasks[s].recv[2]
                 old == IF tasks[s].seen.exists THEN tasks[s].seen.lines ELSE << EmptyLine >>
                 at  == { i \in DOMAIN old : old[i].eq /\ old[i].key = key }
                 new == envFile'.lines
             IN  /\ envFile'.exists
                 /\ IF at = {}
                      THEN new = old \o << Line(key, tasks[s].recv[3]) >>
                    ELSE /\ Len(new) = Len(old)
                         /\ \A j \in DOMAIN old :
                               new[j] = IF j = Min(at) THEN Line(key, tasks[s].recv[3])
                                        ELSE old[j]]_vars

\* Starting without .env, two writes of distinct keys have both reported
\* success and .env holds only one of the two keys
C14_Witness ==
  /\ envAtStart = NoFile
  /\ \E s1, s2 \in Slots :
        /\ WriteSucceeded(s1)
        /\ WriteSucceeded(s2)
        /\ tasks[s1].recv[2] # tasks[s2].recv[2]
        /\ InEnv(tasks[s1].recv[2])
        /\ ~InEnv(tasks[s2].recv[2])

\* The response to a project://config read that finds .env as given
ConfigResponse(file) ==
  Result(ResourceResponse(ConfigUri, "application/json", [by |-> "getConfig", env |-> file]))

InFlight(s) == tasks[s].at \notin {"idle", "responded"}

\* C16: a request is answered only in a step that follows the completion of
\* the function called for it - while the function awaits, no step answers
\* it - the answer once given does not change, and if what the function
\* awaits completes in the end, every request in flight is answered.
C16_NoTimeout ==
  /\ [](\A s \in Slots :
          Responded(s) => tasks[s].outcome.kind # "none" /\ tasks[s].response.kind # "none")
  /\ [][\A s \in Slots :
          /\ (~Responded(s) /\ tasks'[s].at = "responded") => tasks[s].at = "settled"
          /\ (Responded(s) /\ tasks'[s].at = "responded") => tasks'[s] = tasks[s]
          /\ InFlight(s) => tasks'[s].req = tasks[s].req]_vars
  /\ \A s \in Slots : InFlight(s) ~> Responded(s)

\* A command is still running while a command begun in the other slot has
\* been answered
C16_Witness ==
  \E s1, s2 \in Slots :
     /\ tasks[s1].at = "exec"
     /\ Responded(s2)
     /\ tasks[s2].fn = "executeCommand"
     /\ tasks[s2].response.kind = "result"

\* The text of a tool result reports a failure: it is the text of a catch
\* block, of the tool-call handler or of a tool function
ReportsFailure(payload) ==
  LET t == payload.content[1].text
  IN  \/ "fmt" \in DOMAIN t
      \/ "path" \in DOMAIN t /\ t.path = "failed"

\* C21 as stated: every response to a tool call that reports a failure,
\* raised in the tool-call handler or inside a tool function, carries
\* isError = true.
C21_FailureCarriesIsError ==
  (Served /\ last.req.cat = "tool" /\ last.response.kind = "result"
     /\ ReportsFailure(last.response.payload))
    => last.response.payload.isError

\* The URI is one the resource-read handler has a branch for
RecognizedUri(uri) ==
  \/ StartsWith(uri, FilesPrefix)
  \/ uri \in { GitStatusUri, ConfigUri, LogsUri }

\* C22: a resource read is rejected exactly when its URI is not recognized,
\* and then no resource function is called; a recognized URI gets a result
\* whose contents hold exactly one item, with the URI of the request, also
\* when the resource function met a failure.
C22_RejectsOnlyUnrecognizedUri ==
  (Served /\ last.req.cat = "resource") =>
     IF RecognizedUri(last.req.name)
       THEN /\ last.response.kind = "result"
            /\ Len(last.response.payload.contents) = 1
            /\ last.response.payload.contents[1].uri = last.req.name
            /\ Len(last.calls) = 1
     ELSE /\ last.response.kind = "error"
          /\ last.response.error.message.prefix = "Unknown resource: "
          /\ last.calls = <<>>

\* A read of project://git/status whose git command failed was answered
\* with a result
C22_Witness ==
  /\ Served
  /\ last.req.cat = "resource"
  /\ last.req.name = GitStatusUri
  /\ Len(last.calls) = 1
  /\ last.calls[1].outcome.kind = "return"
  /\ last.calls[1].outcome.payload.contents[1].text.path = "failed"
  /\ last.response.kind = "result"

\* The text item of the result of the latest environment_manager call
OpText == envOp.result.payload.content[1].text

\* The latest environment_manager call was a read
ReadDone == envOp.op = "read"

\* The latest write that succeeded
LatestWrite == envWrites[Len(envWrites)]

\* The value of the first line of the file that starts with key=: what
\* follows the "=", without surrounding blanks
FirstValue(key, file) ==
  LET lines == Split(file.text)
      i     == CHOOSE j \in DOMAIN lines :
                 /\ StartsWith(lines[j], key \o <<"=">>)
                 /\ \A h \in 1..(j - 1) : ~StartsWith(lines[h], key \o <<"=">>)
  IN  Trim(SubSeq(lines[i], Len(key) + 2, Len(lines[i])))

WriteDone == envOp.op = "write" /\ envOp.result = Written(envOp.key, envOp.value)

\* The lines of a .env file; a file that does not exist is taken as empty
LinesOf(file) == Split(IF file.exists THEN file.text ELSE <<>>)

NewlineFree(t) == \A i \in DOMAIN t : t[i] # NL

EqualsFree(t) == \A i \in DOMAIN t : t[i] # "="

\* The write just done changed one line: the first line that started with
\* key= is now key=value and the file has as many lines as before, or no
\* line started with key= and key=value is one more line at the end; every
\* other line is where and what it was
OneLineChanged ==
  LET old  == LinesOf(envOp.before)
      new  == LinesOf(dotenv)
      line == envOp.key \o <<"=">> \o envOp.value
      at   == { i \in DOMAIN old : StartsWith(old[i], envOp.key \o <<"=">>) }
  IN  IF at # {}
        THEN /\ Len(new) = Len(old)
             /\ \A i \in DOMAIN old : new[i] = IF i = Min(at) THEN line ELSE old[i]
      ELSE /\ Len(new) = Len(old) + 1
           /\ new[Len(new)] = line
           /\ \A i \in DOMAIN old : new[i] = old[i]

\* Every key written starts at most one line more than before its first write
AtMostOneLineMore ==
  \A key \in DOMAIN envCounts : CountOf(key, dotenv) <= envCounts[key] + 1

\* C24 as stated: a write changes one line as described, whatever the key
\* and the value; and after writes of keys and values without newline, a
\* key that was written starts at most one line more than before its first
\* write.
C24_WriteChangesOneLine ==
  /\ WriteDone => OneLineChanged
  /\ (\A i \in DOMAIN envWrites :
         NewlineFree(envWrites[i].key) /\ NewlineFree(envWrites[i].value))
       => AtMostOneLineMore

\* C24 (amended): a write of a key and a value without newline changes one
\* line as described; and after writes of values without newline under keys
\* without newline and without "=", a key that was written starts at most
\* one line more than before its first write.
C24_OneLineForNewlineFree ==
  /\ (WriteDone /\ NewlineFree(envOp.key) /\ NewlineFree(envOp.value)) => OneLineChanged
  /\ (\A i \in DOMAIN envWrites :
         /\ NewlineFree(envWrites[i].key)
         /\ EqualsFree(envWrites[i].key)
         /\ NewlineFree(envWrites[i].value))
       => AtMostOneLineMore

\* .env had two lines for A; a write of A set the first and left the second
C24_Witness ==
  /\ WriteDone
  /\ envOp.key = <<"A">>
  /\ NewlineFree(envOp.value)
  /\ envOp.before = Text(<<"A", "=", "1", NL, "A", "=", "2">>)
  /\ dotenv = Text(<<"A", "=">> \o envOp.value \o <<NL, "A", "=", "2">>)
  /\ envCounts[<<"A">>] = 2

\* The key is no hardcoded secret and the process has no variable of that name
FileOnlyKey(key) == key \notin DOMAIN HARDCODED_SECRETS /\ ProcessEnvValue(key) = Missing

\* C25 as stated: for a key that is neither a hardcoded secret nor set in
\* the process environment, a read that follows a write of (K, v) that
\* succeeded reports v from .env, whatever the key, the value and the
\* earlier contents of the file; and a second write of the same (K, v)
\* leaves .env as it is.
C25_WriteThenRead ==
  /\ []((ReadDone /\ envWrites # <<>> /\ LatestWrite.key = envOp.key
           /\ FileOnlyKey(envOp.key))
          => (OpText.from = ".env" /\ OpText.value = LatestWrite.value))
  /\ [][(/\ envWrites # <<>>
         /\ FileOnlyKey(LatestWrite.key)
         /\ Len(envWrites') = Len(envWrites) + 1
         /\ envWrites'[Len(envWrites')] = LatestWrite)
          => dotenv' = dotenv]_vars

\* The call of slot s is in flight: begun and not yet returned
Calling(s) == dbTasks[s].at \notin {"idle", "returned"}

C27_SeededOnce == users.rows <= DemoRows

====
